---- MODULE Spec2Model ----
(***************************************************************************)
(* The two orchestration loops of postgres-agent:                          *)
(*   llm.py   process_prompt  = get_database_schema, get_available_tools,  *)
(*                              planning_phase, execution_phase            *)
(*   main.py  MCPClient.process_query                                      *)
(*                                                                         *)
(* A Python str is a sequence of tokens (<<>> is ""), + and f-strings are  *)
(* \o.  A content block is a record; hasattr(b, 'f') is "f" \in DOMAIN b.  *)
(* One action is the return (or the raise) of one external call followed   *)
(* by all the code that runs up to the next external call.                 *)
(***************************************************************************)
EXTENDS Integers, Sequences, FiniteSets, TLC

VARIABLES
    entry,            \* which coroutine runs: "process_prompt" | "process_query"
    pc,               \* the external call the coroutine waits for, or "done"
    prompt,           \* prompt (llm.py) / query (main.py)
    context,          \* schema context
    available_tools,  \* tool catalog handed to the Gateway
    planning_text,    \* the plan (llm.py only)
    messages,         \* the conversation history
    iteration,        \* loop counter
    response,         \* content of the last Gateway response of the loop
    scan,             \* index in response of the tool_use block being dispatched
    tool_results,     \* results collected in the current iteration
    result,           \* how the coroutine ended: [kind, value]
    gateway_log,      \* observer: every Gateway call made
    tool_log,         \* observer: every session.call_tool made
    session_log,      \* observer: every read_resource and list_tools made
    log_failed,       \* observer: a write of a log file raised
    next_id,          \* the Gateway's id generator
    deviations,       \* how far the environment has left the nominal script
    parked,           \* the other coroutine of the event loop, suspended: <<>> or
                      \* <<its locals>>
    switches          \* how often the event loop has left a coroutine that had
                      \* not ended for the other one

vars == <<entry, pc, prompt, context, available_tools, planning_text, messages,
          iteration, response, scan, tool_results, result, gateway_log,
          tool_log, session_log, log_failed, next_id, deviations, parked,
          switches>>

----------------------------------------------------------------------------
(* Bounds and input sets *)

\* The environment (session, model, file system) leaves the nominal script
\* (schema found, catalog listed, one default block per response, every call
\* succeeding) in at most this many elementary ways per run.
MaxDeviations == 1

\* The event loop leaves a coroutine that has not ended for the other one at
\* most this many times.
MaxSwitches == 2

DefaultPrompt == <<"list top 5 scorers">>
Prompts == {DefaultPrompt, <<"count players">>}

DefaultText == <<"Top scorer: A (30 pts)">>
Texts == {DefaultText, <<"No rows">>}

DefaultName == "query"
ToolNames == {DefaultName, "describe"}
DefaultArgs == "sql1"
ToolArgs == {DefaultArgs, "sql2"}

Catalog == <<"query", "describe">>

SchemaText == <<"table players(name, points)">>

\* messages of the exceptions the collaborators raise
SchemaFailure == <<"resource unavailable">>
CatalogFailure == <<"list_tools failed">>
GatewayFailure == <<"gateway unavailable">>
ToolFailure == <<"tool failed">>
LogFailure == <<"cannot write log">>

\* what session.call_tool returns when it succeeds
ToolPayload == [content |-> "rows"]

----------------------------------------------------------------------------
(* Helpers *)

HasAttr(b, f) == f \in DOMAIN b

RECURSIVE SumOver(_, _)
SumOver(f, n) == IF n = 0 THEN 0 ELSE f[n] + SumOver(f, n - 1)

\* cost of one block the model emits, against the nominal block
BlockCost(b) ==
    IF b.type = "text"
    THEN (IF b.text = DefaultText THEN 0 ELSE 1)
    ELSE (IF b.name = DefaultName THEN 0 ELSE 1)
         + (IF b.input = DefaultArgs THEN 0 ELSE 1)

ContentCost(c) ==
    (IF Len(c) = 0 THEN 1 ELSE Len(c) - 1)
    + SumOver([i \in 1..Len(c) |-> BlockCost(c[i])], Len(c))

ProtoBlocks ==
    {[type |-> "text", text |-> t] : t \in Texts}
    \cup {[type |-> "tool_use", name |-> n, input |-> a] :
             n \in ToolNames, a \in ToolArgs}

ProtoContents(budget) ==
    {c \in UNION {[1..n -> ProtoBlocks] : n \in 0..(budget + 1)} :
        ContentCost(c) <= budget}

\* the four sections the planning template asks for
Sections ==
    <<"# CONTEXT: ...", "# OBJECTIVE: ...", "# INSTRUCTIONS: ...", "# EXAMPLE: ...">>

\* the plan the model writes when it keeps only the sections of S
PlanDocument(S) ==
    LET part(i) == IF i \in S THEN <<Sections[i]>> ELSE <<>>
        RECURSIVE from(_)
        from(i) == IF i > Len(Sections) THEN <<>> ELSE part(i) \o from(i + 1)
    IN  from(1)

PlanDocuments == {PlanDocument(S) : S \in SUBSET DOMAIN Sections}

\* blocks of the response to the planning prompt
PlanBlocks ==
    {[type |-> "text", text |-> t] : t \in PlanDocuments}
    \cup {[type |-> "tool_use", name |-> n, input |-> a] :
             n \in ToolNames, a \in ToolArgs}

PlanBlockCost(b) ==
    IF b.type = "text"
    THEN (IF b.text = Sections THEN 0 ELSE 1)
    ELSE BlockCost(b)

PlanCost(c) ==
    (IF Len(c) = 0 THEN 1 ELSE Len(c) - 1)
    + SumOver([i \in 1..Len(c) |-> PlanBlockCost(c[i])], Len(c))

PlanContents(budget) ==
    {c \in UNION {[1..n -> PlanBlocks] : n \in 0..(budget + 1)} :
        PlanCost(c) <= budget}

ToolUsesBefore(c, i) == Cardinality({j \in 1..(i - 1) : c[j].type = "tool_use"})

\* the Gateway stamps every tool_use block with a fresh id
Stamp(c, first) ==
    [i \in 1..Len(c) |->
        IF c[i].type = "tool_use"
        THEN [type |-> "tool_use", id |-> first + ToolUsesBefore(c, i),
              name |-> c[i].name, input |-> c[i].input]
        ELSE c[i]]

ToolUseCount(c) == Cardinality({j \in 1..Len(c) : c[j].type = "tool_use"})

----------------------------------------------------------------------------
(* llm.py: pure helpers *)

\* mutant: the role argument is ignored
create_message_assistant(content, role) == [role |-> "assistant", content |-> content]

create_message(content, role) == [role |-> role, content |-> content]

\* str() of an object that is not a str, named by the token x
Repr(x) == <<"repr(", x, ")">>

\* mutant: str(content_block) appended for every block instead of its text
extract_response_text_str(content) ==
    IF Len(content) > 0 THEN Repr("content_block") ELSE <<>>

\* mutant: only the first block of the response is read
extract_response_text_first_block(content) ==
    IF Len(content) > 0 /\ HasAttr(content[1], "text")
    THEN content[1].text ELSE <<>>

RECURSIVE extract_from(_, _)
extract_from(content, i) ==
    IF i > Len(content) THEN <<>>
    ELSE (IF HasAttr(content[i], "text") THEN content[i].text
          ELSE IF HasAttr(content[i], "type") /\ content[i].type = "text"
               THEN Repr("content_block")
               ELSE <<>>)
         \o extract_from(content, i + 1)

extract_response_text(content) ==
    IF Len(content) > 0 THEN extract_from(content, 1) ELSE <<>>

\* what session.read_resource can return
SchemaResponses ==
    {[contents |-> <<[text |-> SchemaText]>>],
     [contents |-> <<>>],
     [contents |-> <<[blob |-> "bytes"]>>]}

SchemaCost(r) == IF r = [contents |-> <<[text |-> SchemaText]>>] THEN 0 ELSE 1

\* the try body of get_database_schema
schema_of(context_response) ==
    IF Len(context_response.contents) > 0
    THEN (IF HasAttr(context_response.contents[1], "text")
          THEN context_response.contents[1].text
          ELSE Repr("first_content"))
    ELSE <<>>

\* mutant: get_database_schema lets the exception through
schema_reraise(e) == [raised |-> TRUE, value |-> <<>>]

\* the except branch of get_database_schema
schema_on_error(e) == [raised |-> FALSE, value |-> <<>>]

\* mutant: get_available_tools swallows the exception and returns no tool
catalog_swallowed(e) == [raised |-> FALSE, value |-> <<>>]

\* session.list_tools raised: get_available_tools has no except branch
catalog_on_error(e) == [raised |-> TRUE, value |-> <<>>]

planning_prompt(p, c) ==
    <<"You are a SQL query planner. User Request: ">> \o p
    \o <<" Available Database Schema: ">> \o c
    \o <<" Create a comprehensive plan in this EXACT format: ...">>

execution_prompt(p, plan) ==
    <<"You are a SQL execution assistant. ORIGINAL USER REQUEST: ">> \o p
    \o <<" EXECUTION PLAN: ">> \o plan
    \o <<" Now execute this plan step by step: ... Begin execution now.">>

\* mutant: the planning failure is raised with the tag of the other phase
planning_error_as_execution(e) == <<"Error in execution phase: ">> \o e

planning_error(e) == <<"Error in planning phase: ">> \o e

\* mutant: the Gateway error leaves the stage as it came
execution_error_untagged(e) == e

execution_error(e) == <<"Error in execution phase: ">> \o e

\* mutant: process_prompt without its except branch
process_prompt_reraise(e) == [kind |-> "raise", value |-> e]

\* the except branch of process_prompt
process_prompt_error(e) ==
    [kind |-> "return", value |-> <<"Error in process_prompt: ">> \o e]

max_iterations == 10

\* mutant: only the tool_use blocks of the response are kept in the history
assistant_message_tool_uses_only(content) ==
    [role |-> "assistant",
     content |-> SelectSeq(content, LAMBDA b : b.type = "tool_use")]

\* the assistant message appended for a response
assistant_message(content) == [role |-> "assistant", content |-> content]

IsToolUse(b) == HasAttr(b, "type") /\ b.type = "tool_use"

\* mutant: the for loop stops after the first tool_use block
NextToolUse_single(content, from) ==
    LET uses == {i \in 1..Len(content) : content[i].type = "tool_use"}
    IN  IF from = 1 /\ uses # {}
        THEN CHOOSE i \in uses : \A j \in uses : i <= j
        ELSE 0

\* the next block at or after index from that the for loop dispatches, 0 if none
RECURSIVE NextToolUse(_, _)
NextToolUse(content, from) ==
    IF from > Len(content) THEN 0
    ELSE IF IsToolUse(content[from]) THEN from
    ELSE NextToolUse(content, from + 1)

\* mutant: the result is filed under the id of the block before
tool_success_stale_id(block, payload) ==
    [type |-> "tool_result", tool_use_id |-> block.id - 1,
     content |-> Repr("result")]

\* session.call_tool returned
tool_success(block, payload) ==
    [type |-> "tool_result", tool_use_id |-> block.id,
     content |-> IF HasAttr(payload, "content")
                 THEN Repr(payload.content) ELSE Repr("result")]

\* mutant: no except branch around session.call_tool
tool_failure_propagates(block, e) ==
    [raised |-> TRUE,
     value |-> [type |-> "tool_result", tool_use_id |-> block.id,
                content |-> <<"Error: ">> \o e, is_error |-> TRUE]]

\* session.call_tool raised: the except branch around it
tool_failure(block, e) ==
    [raised |-> FALSE,
     value |-> [type |-> "tool_result", tool_use_id |-> block.id,
                content |-> <<"Error: ">> \o e, is_error |-> TRUE]]

\* mutant: the flag is set whatever the blocks are, so the loop never breaks
tool_calls_made_always(content) == TRUE

\* the flag the for loop leaves behind
tool_calls_made(content) == \E i \in 1..Len(content) : IsToolUse(content[i])

\* mutant: while True
loop_continues_unbounded(it) == TRUE

\* mutant: off by one in the while condition
loop_continues_inclusive(it) == it <= max_iterations

\* the while condition, tested when an iteration ends without break
loop_continues(it) == it < max_iterations

\* mutant: planning_phase hands the catalog to the Gateway
planning_tools_catalog == Catalog

\* available_tools of the call_anthropic of planning_phase: left to its default
planning_tools == <<>>

\* what call_anthropic passes as tools
tools_argument(tools) == IF tools # <<>> THEN tools ELSE <<>>

----------------------------------------------------------------------------
(* llm.py: process_prompt *)

Left == MaxDeviations - deviations

NoResult == [kind |-> "none", value |-> <<>>]

Init ==
    /\ entry \in {"process_prompt", "process_query"}
    /\ prompt \in Prompts
    /\ deviations = (IF prompt = DefaultPrompt THEN 0 ELSE 1)
    /\ pc = "schema"
    /\ context = <<>>
    /\ available_tools = <<>>
    /\ planning_text = <<>>
    /\ messages = <<>>
    /\ iteration = 0
    /\ response = <<>>
    /\ scan = 0
    /\ tool_results = <<>>
    /\ result = NoResult
    /\ gateway_log = <<>>
    /\ tool_log = <<>>
    /\ session_log = <<>>
    /\ log_failed = FALSE
    /\ next_id = 1
    /\ parked = <<>>
    /\ switches = 0

SessionCall(op, raised) == [op |-> op, raised |-> raised]

GatewayCall(phase, tools, history, ok, reply) ==
    [phase |-> phase, tools |-> tools, nmsgs |-> Len(history),
     last |-> history[Len(history)], ok |-> ok, reply |-> reply]

ToolCall(block, it, raised) ==
    [name |-> block.name, args |-> block.input, id |-> block.id,
     iteration |-> it, raised |-> raised]

\* await get_database_schema(session) returns into process_prompt
get_database_schema ==
    /\ entry = "process_prompt"
    /\ pc = "schema"
    /\ \E raises \in BOOLEAN, r \in SchemaResponses :
        LET cost == IF raises THEN 1 ELSE SchemaCost(r)
            got == IF raises THEN schema_on_error(SchemaFailure)
                   ELSE [raised |-> FALSE, value |-> schema_of(r)]
        IN  /\ cost <= Left
            /\ raises => r = [contents |-> <<>>]
            /\ deviations' = deviations + cost
            /\ session_log' = Append(session_log, SessionCall("read_resource", raises))
            /\ IF got.raised
               THEN /\ result' = process_prompt_error(SchemaFailure)
                    /\ pc' = "done"
                    /\ context' = context
               ELSE /\ context' = got.value
                    /\ pc' = "tools"
                    /\ result' = result
    /\ UNCHANGED <<switches, parked, entry, prompt, available_tools, planning_text, messages,
                   iteration, response, scan, tool_results, gateway_log,
                   tool_log, log_failed, next_id>>

\* await get_available_tools(session) returns into process_prompt
get_available_tools ==
    /\ entry = "process_prompt"
    /\ pc = "tools"
    /\ \E raises \in BOOLEAN :
        /\ (IF raises THEN 1 ELSE 0) <= Left
        /\ deviations' = deviations + (IF raises THEN 1 ELSE 0)
        /\ session_log' = Append(session_log, SessionCall("list_tools", raises))
        /\ LET got == IF raises THEN catalog_on_error(CatalogFailure)
                      ELSE [raised |-> FALSE, value |-> Catalog]
           IN  IF got.raised
               THEN /\ result' = process_prompt_error(CatalogFailure)
                    /\ pc' = "done"
                    /\ available_tools' = available_tools
               ELSE /\ available_tools' = got.value
                    /\ pc' = "plan"
                    /\ result' = result
    /\ UNCHANGED <<switches, parked, entry, prompt, context, planning_text, messages, iteration,
                   response, scan, tool_results, gateway_log, tool_log,
                   log_failed, next_id>>

\* planning_phase: its Gateway call returns or raises, the log is written,
\* and on success execution_phase builds its seed message
planning_phase ==
    /\ entry = "process_prompt"
    /\ pc = "plan"
    /\ \E raises \in BOOLEAN, logfails \in BOOLEAN, c \in PlanContents(Left) :
        LET cost == IF raises THEN 1
                    ELSE PlanCost(c) + (IF logfails THEN 1 ELSE 0)
            history == <<create_message(planning_prompt(prompt, context), "user")>>
            content == IF raises THEN <<>> ELSE Stamp(c, next_id)
            text == extract_response_text(content)
        IN  /\ cost <= Left
            /\ raises => (c = <<>> /\ ~logfails)
            /\ deviations' = deviations + cost
            /\ gateway_log' = Append(gateway_log,
                   GatewayCall("planning", tools_argument(planning_tools), history,
                               ~raises, content))
            /\ next_id' = IF raises THEN next_id ELSE next_id + ToolUseCount(c)
            /\ log_failed' = logfails
            /\ IF raises \/ logfails
               THEN /\ result' = process_prompt_error(planning_error(
                           IF raises THEN GatewayFailure ELSE LogFailure))
                    /\ pc' = "done"
                    /\ UNCHANGED <<planning_text, messages>>
               ELSE /\ planning_text' = text
                    /\ messages' =
                         <<create_message(execution_prompt(prompt, text), "user")>>
                    /\ pc' = "gateway"
                    /\ result' = result
    /\ iteration' = 0
    /\ UNCHANGED <<switches, parked, entry, prompt, context, available_tools, response, scan,
                   tool_results, tool_log, session_log>>

\* the code after the while loop of execution_phase, back in process_prompt
execution_finish(content, logfails) ==
    IF logfails THEN process_prompt_error(execution_error(LogFailure))
    ELSE [kind |-> "return", value |-> extract_response_text(content)]

\* execution_phase: the Gateway call of one iteration returns or raises
execution_gateway ==
    /\ entry = "process_prompt"
    /\ pc = "gateway"
    /\ \E raises \in BOOLEAN, logfails \in BOOLEAN, c \in ProtoContents(Left) :
        LET content == IF raises THEN <<>> ELSE Stamp(c, next_id)
            first == NextToolUse(content, 1)
            goes_on == tool_calls_made(content) /\ loop_continues(iteration + 1)
            cost == IF raises THEN 1
                    ELSE ContentCost(c) + (IF logfails THEN 1 ELSE 0)
        IN  /\ cost <= Left
            /\ raises => (c = <<>> /\ ~logfails)
            /\ logfails => (first = 0 /\ ~goes_on)
            /\ deviations' = deviations + cost
            /\ iteration' = iteration + 1
            /\ gateway_log' = Append(gateway_log,
                   GatewayCall("execution", tools_argument(available_tools),
                               messages, ~raises, content))
            /\ next_id' = IF raises THEN next_id ELSE next_id + ToolUseCount(c)
            /\ log_failed' = logfails
            /\ IF raises
               THEN /\ result' = process_prompt_error(execution_error(GatewayFailure))
                    /\ pc' = "done"
                    /\ UNCHANGED <<messages, response, scan, tool_results>>
               ELSE /\ messages' = Append(messages, assistant_message(content))
                    /\ response' = content
                    /\ tool_results' = <<>>
                    /\ scan' = first
                    /\ IF first # 0 THEN pc' = "tool" /\ result' = result
                       ELSE IF goes_on THEN pc' = "gateway" /\ result' = result
                       ELSE pc' = "done" /\ result' = execution_finish(content, logfails)
    /\ UNCHANGED <<switches, parked, entry, prompt, context, available_tools, planning_text,
                   tool_log, session_log>>

\* execution_phase: session.call_tool for the block at scan returns or raises
execution_tool ==
    /\ entry = "process_prompt"
    /\ pc = "tool"
    /\ \E raises \in BOOLEAN, logfails \in BOOLEAN :
        LET block == response[scan]
            got == IF raises THEN tool_failure(block, ToolFailure)
                   ELSE [raised |-> FALSE, value |-> tool_success(block, ToolPayload)]
            results == Append(tool_results, got.value)
            next == NextToolUse(response, scan + 1)
            goes_on == tool_calls_made(response) /\ loop_continues(iteration)
            cost == (IF raises THEN 1 ELSE 0) + (IF logfails THEN 1 ELSE 0)
        IN  /\ cost <= Left
            /\ logfails => (next = 0 /\ ~goes_on /\ ~got.raised)
            /\ deviations' = deviations + cost
            /\ tool_log' = Append(tool_log, ToolCall(block, iteration, raises))
            /\ log_failed' = logfails
            /\ IF got.raised
               THEN /\ result' = process_prompt_error(execution_error(ToolFailure))
                    /\ pc' = "done"
                    /\ UNCHANGED <<messages, scan, tool_results>>
               ELSE /\ tool_results' = results
                    /\ scan' = next
                    /\ messages' = IF next = 0 /\ tool_calls_made(response)
                                      /\ results # <<>>
                                   THEN Append(messages,
                                            [role |-> "user", content |-> results])
                                   ELSE messages
                    /\ IF next # 0 THEN pc' = "tool" /\ result' = result
                       ELSE IF goes_on THEN pc' = "gateway" /\ result' = result
                       ELSE pc' = "done"
                            /\ result' = execution_finish(response, logfails)
    /\ UNCHANGED <<switches, parked, entry, prompt, context, available_tools, planning_text,
                   iteration, response, gateway_log, session_log, next_id>>

----------------------------------------------------------------------------
(* main.py: MCPClient.process_query *)

query_max_iterations == 10

\* the conditional expression of the try body; contents[0].text of an object
\* without a text attribute raises AttributeError inside the try
query_context(context_response) ==
    IF Len(context_response.contents) > 0
    THEN (IF HasAttr(context_response.contents[1], "text")
          THEN [raised |-> FALSE, value |-> context_response.contents[1].text]
          ELSE [raised |-> TRUE, value |-> <<"no attribute text">>])
    ELSE [raised |-> FALSE, value |-> <<>>]

query_with_context(q, c) == q \o <<"\n\nDatabase schema context:\n">> \o c

QueryIsToolUse(b) == b.type = "tool_use"

RECURSIVE QueryNextToolUse(_, _)
QueryNextToolUse(content, from) ==
    IF from > Len(content) THEN 0
    ELSE IF QueryIsToolUse(content[from]) THEN from
    ELSE QueryNextToolUse(content, from + 1)

query_tool_calls_made(content) ==
    \E i \in 1..Len(content) : QueryIsToolUse(content[i])

query_tool_success(block, payload) ==
    [type |-> "tool_result", tool_use_id |-> block.id,
     content |-> Repr(payload.content)]

query_tool_failure(block, e) ==
    [raised |-> FALSE,
     value |-> [type |-> "tool_result", tool_use_id |-> block.id,
                content |-> <<"Error: ">> \o e, is_error |-> TRUE]]

\* mutant: off by one in the while condition
query_loop_continues_inclusive(it) == it <= query_max_iterations

query_loop_continues(it) == it < query_max_iterations

\* "\n".join of the text of the blocks of type text, from block i on
RECURSIVE query_join(_, _, _)
query_join(content, i, started) ==
    IF i > Len(content) THEN <<>>
    ELSE IF content[i].type = "text"
         THEN (IF started THEN <<"\n">> ELSE <<>>) \o content[i].text
              \o query_join(content, i + 1, TRUE)
         ELSE query_join(content, i + 1, started)

query_final(content) ==
    IF \E i \in 1..Len(content) : content[i].type = "text"
    THEN [kind |-> "return", value |-> query_join(content, 1, FALSE)]
    ELSE [kind |-> "return", value |-> <<"No text response received.">>]

\* session.read_resource returns or raises; the seed message is built
query_schema ==
    /\ entry = "process_query"
    /\ pc = "schema"
    /\ \E raises \in BOOLEAN, r \in SchemaResponses :
        LET cost == IF raises THEN 1 ELSE SchemaCost(r)
            got == IF raises THEN [raised |-> TRUE, value |-> SchemaFailure]
                   ELSE query_context(r)
            ctx == IF got.raised THEN <<>> ELSE got.value
        IN  /\ cost <= Left
            /\ raises => r = [contents |-> <<>>]
            /\ deviations' = deviations + cost
            /\ session_log' = Append(session_log, SessionCall("read_resource", raises))
            /\ context' = ctx
            /\ messages' = <<[role |-> "user",
                              content |-> query_with_context(prompt, ctx)]>>
    /\ pc' = "tools"
    /\ UNCHANGED <<switches, parked, entry, prompt, available_tools, planning_text, iteration,
                   response, scan, tool_results, result, gateway_log, tool_log,
                   log_failed, next_id>>

\* session.list_tools returns or raises
query_tools ==
    /\ entry = "process_query"
    /\ pc = "tools"
    /\ \E raises \in BOOLEAN :
        /\ (IF raises THEN 1 ELSE 0) <= Left
        /\ deviations' = deviations + (IF raises THEN 1 ELSE 0)
        /\ session_log' = Append(session_log, SessionCall("list_tools", raises))
        /\ IF raises
           THEN /\ result' = [kind |-> "raise", value |-> CatalogFailure]
                /\ pc' = "done"
                /\ available_tools' = available_tools
           ELSE /\ available_tools' = Catalog
                /\ pc' = "gateway"
                /\ result' = result
    /\ iteration' = 0
    /\ UNCHANGED <<switches, parked, entry, prompt, context, planning_text, messages, response,
                   scan, tool_results, gateway_log, tool_log, log_failed, next_id>>

\* self.anthropic.messages.create of one iteration returns or raises
query_gateway ==
    /\ entry = "process_query"
    /\ pc = "gateway"
    /\ \E raises \in BOOLEAN, c \in ProtoContents(Left) :
        LET content == IF raises THEN <<>> ELSE Stamp(c, next_id)
            first == QueryNextToolUse(content, 1)
            goes_on == query_tool_calls_made(content)
                       /\ query_loop_continues(iteration + 1)
            cost == IF raises THEN 1 ELSE ContentCost(c)
        IN  /\ cost <= Left
            /\ raises => c = <<>>
            /\ deviations' = deviations + cost
            /\ iteration' = iteration + 1
            /\ gateway_log' = Append(gateway_log,
                   GatewayCall("execution", available_tools, messages,
                               ~raises, content))
            /\ next_id' = IF raises THEN next_id ELSE next_id + ToolUseCount(c)
            /\ IF raises
               THEN /\ result' = [kind |-> "raise", value |-> GatewayFailure]
                    /\ pc' = "done"
                    /\ UNCHANGED <<messages, response, scan, tool_results>>
               ELSE /\ messages' = Append(messages,
                                     [role |-> "assistant", content |-> content])
                    /\ response' = content
                    /\ tool_results' = <<>>
                    /\ scan' = first
                    /\ IF first # 0 THEN pc' = "tool" /\ result' = result
                       ELSE IF goes_on THEN pc' = "gateway" /\ result' = result
                       ELSE pc' = "done" /\ result' = query_final(content)
    /\ UNCHANGED <<switches, parked, entry, prompt, context, available_tools, planning_text,
                   tool_log, session_log, log_failed>>

\* self.session.call_tool for the block at scan returns or raises
query_tool ==
    /\ entry = "process_query"
    /\ pc = "tool"
    /\ \E raises \in BOOLEAN :
        LET block == response[scan]
            got == IF raises THEN query_tool_failure(block, ToolFailure)
                   ELSE [raised |-> FALSE,
                         value |-> query_tool_success(block, ToolPayload)]
            results == Append(tool_results, got.value)
            next == QueryNextToolUse(response, scan + 1)
            goes_on == query_tool_calls_made(response)
                       /\ query_loop_continues(iteration)
            cost == IF raises THEN 1 ELSE 0
        IN  /\ cost <= Left
            /\ deviations' = deviations + cost
            /\ tool_log' = Append(tool_log, ToolCall(block, iteration, raises))
            /\ IF got.raised
               THEN /\ result' = [kind |-> "raise", value |-> ToolFailure]
                    /\ pc' = "done"
                    /\ UNCHANGED <<messages, scan, tool_results>>
               ELSE /\ tool_results' = results
                    /\ scan' = next
                    /\ messages' = IF next = 0 /\ query_tool_calls_made(response)
                                      /\ results # <<>>
                                   THEN Append(messages,
                                            [role |-> "user", content |-> results])
                                   ELSE messages
                    /\ IF next # 0 THEN pc' = "tool" /\ result' = result
                       ELSE IF goes_on THEN pc' = "gateway" /\ result' = result
                       ELSE pc' = "done" /\ result' = query_final(response)
    /\ UNCHANGED <<switches, parked, entry, prompt, context, available_tools, planning_text,
                   iteration, response, gateway_log, session_log, log_failed,
                   next_id>>

----------------------------------------------------------------------------
(* Two process_prompt coroutines on one event loop and one session *)

\* the other prompt
SecondPrompt(p) == CHOOSE q \in Prompts : q # p

\* the locals of the running coroutine, with what was observed of it
Frame ==
    [pc |-> pc, prompt |-> prompt, context |-> context,
     available_tools |-> available_tools, planning_text |-> planning_text,
     messages |-> messages, iteration |-> iteration, response |-> response,
     scan |-> scan, tool_results |-> tool_results, result |-> result,
     gateway_log |-> gateway_log, tool_log |-> tool_log,
     session_log |-> session_log, log_failed |-> log_failed]

\* a coroutine that has not started yet
StartFrame(p) ==
    [pc |-> "schema", prompt |-> p, context |-> <<>>, available_tools |-> <<>>,
     planning_text |-> <<>>, messages |-> <<>>, iteration |-> 0,
     response |-> <<>>, scan |-> 0, tool_results |-> <<>>, result |-> NoResult,
     gateway_log |-> <<>>, tool_log |-> <<>>, session_log |-> <<>>,
     log_failed |-> FALSE]

\* where a coroutine gives the event loop its turn: the awaits on the session
\* (read_resource, list_tools, call_tool) and its end. call_anthropic has no
\* await inside, so awaiting it never suspends.
SuspensionPoints == {"schema", "tools", "tool", "done"}

\* mutant: messages is a module-level list both coroutines use
messages_of_run_global(own, other) == other

\* messages is a local of execution_phase: a coroutine resumes with its own
messages_of_run(own, other) == own

\* the event loop suspends the running coroutine and resumes the other one
switch ==
    /\ parked # <<>>
    /\ pc \in SuspensionPoints
    /\ parked[1].pc # "done"
    /\ pc # "done" => switches < MaxSwitches
    /\ switches' = IF pc = "done" THEN switches ELSE switches + 1
    /\ parked' = <<Frame>>
    /\ pc' = parked[1].pc
    /\ prompt' = parked[1].prompt
    /\ context' = parked[1].context
    /\ available_tools' = parked[1].available_tools
    /\ planning_text' = parked[1].planning_text
    /\ messages' = messages_of_run(parked[1].messages, messages)
    /\ iteration' = parked[1].iteration
    /\ response' = parked[1].response
    /\ scan' = parked[1].scan
    /\ tool_results' = parked[1].tool_results
    /\ result' = parked[1].result
    /\ gateway_log' = parked[1].gateway_log
    /\ tool_log' = parked[1].tool_log
    /\ session_log' = parked[1].session_log
    /\ log_failed' = parked[1].log_failed
    /\ UNCHANGED <<entry, next_id, deviations>>

\* two process_prompt calls with different prompts; the session, the model
\* and the file system keep to the nominal script for both
InitTwo ==
    /\ entry = "process_prompt"
    /\ prompt = DefaultPrompt
    /\ deviations = MaxDeviations
    /\ pc = "schema"
    /\ context = <<>>
    /\ available_tools = <<>>
    /\ planning_text = <<>>
    /\ messages = <<>>
    /\ iteration = 0
    /\ response = <<>>
    /\ scan = 0
    /\ tool_results = <<>>
    /\ result = NoResult
    /\ gateway_log = <<>>
    /\ tool_log = <<>>
    /\ session_log = <<>>
    /\ log_failed = FALSE
    /\ next_id = 1
    /\ parked = <<StartFrame(SecondPrompt(prompt))>>
    /\ switches = 0

NextTwo ==
    \/ get_database_schema
    \/ get_available_tools
    \/ planning_phase
    \/ execution_gateway
    \/ execution_tool
    \/ switch

SpecTwo == InitTwo /\ [][NextTwo]_vars

----------------------------------------------------------------------------

Next ==
    \/ get_database_schema
    \/ get_available_tools
    \/ planning_phase
    \/ execution_gateway
    \/ execution_tool
    \/ query_schema
    \/ query_tools
    \/ query_gateway
    \/ query_tool

Spec == Init /\ [][Next]_vars

\* every awaited call returns or raises, and the event loop then resumes the
\* coroutine
SpecLive == Spec /\ WF_vars(Next)

----------------------------------------------------------------------------
(* Observations used by the properties *)

ExecLog == SelectSeq(gateway_log, LAMBDA g : g.phase = "execution")

ToolUseIds(content) ==
    {content[j].id : j \in {k \in 1..Len(content) : content[k].type = "tool_use"}}

NoToolUse(content) == ToolUseIds(content) = {}

IsPromptRun == entry = "process_prompt"

\* the string process_prompt returns for an exception with message e
ReportedError(e) == <<"Error in process_prompt: ">> \o e

----------------------------------------------------------------------------
(* Properties *)

\* C1: whatever the session, the Gateway and the log files do, process_prompt
\* never lets an exception escape: while it runs nothing is raised, and when
\* it has ended it has returned a string.
C1_ProcessPromptReturnsString ==
    IsPromptRun =>
        /\ result.kind # "raise"
        /\ (pc = "done") = (result.kind = "return")
        /\ result.value \in Seq(STRING)

\* C1 witness: process_prompt has ended after a Gateway call of the execution
\* stage raised.
C1_Witness ==
    /\ IsPromptRun
    /\ pc = "done"
    /\ ExecLog # <<>>
    /\ ~ExecLog[Len(ExecLog)].ok
    /\ result.kind = "return"

\* C2: a loop that has ended, in which no Gateway call failed and every
\* response held a tool_use block, made exactly 10 Gateway calls, and its
\* result is computed from the 10th response.
C2_BoundEnforced ==
    (/\ pc = "done"
     /\ ExecLog # <<>>
     /\ \A i \in 1..Len(ExecLog) : ExecLog[i].ok /\ ~NoToolUse(ExecLog[i].reply))
    => /\ Len(ExecLog) = 10
       /\ iteration = 10
       /\ response = ExecLog[10].reply
       /\ IF IsPromptRun
          THEN log_failed \/ result = [kind |-> "return",
                                        value |-> extract_response_text(ExecLog[10].reply)]
          ELSE result = query_final(ExecLog[10].reply)

\* C2 witness: the loop was stopped by the bound and returned.
C2_Witness ==
    /\ IsPromptRun
    /\ pc = "done"
    /\ Len(ExecLog) = 10
    /\ \A i \in 1..Len(ExecLog) : ExecLog[i].ok /\ ~NoToolUse(ExecLog[i].reply)
    /\ result.kind = "return"
    /\ ~log_failed

\* C3: when the first response of the execution stage holds no tool_use
\* block, the stage makes exactly one Gateway call and call_tool is never
\* invoked.
C3_NoToolUseFirst ==
    (ExecLog # <<>> /\ ExecLog[1].ok /\ NoToolUse(ExecLog[1].reply))
    => /\ Len(ExecLog) = 1
       /\ tool_log = <<>>
       /\ pc = "done"

\* C3 witness: the stage ended on a first response made of text only.
C3_Witness ==
    /\ IsPromptRun
    /\ pc = "done"
    /\ Len(ExecLog) = 1
    /\ ExecLog[1].ok
    /\ ExecLog[1].reply # <<>>
    /\ NoToolUse(ExecLog[1].reply)
    /\ result.kind = "return"

\* C4: every tool_result block of the history answers a tool_use block of the
\* assistant message right before it, and so do the results still being
\* collected.
C4_Correlation ==
    /\ \A i \in 2..Len(messages) :
          messages[i].role = "user" =>
             /\ messages[i - 1].role = "assistant"
             /\ \A k \in 1..Len(messages[i].content) :
                   messages[i].content[k].tool_use_id
                       \in ToolUseIds(messages[i - 1].content)
    /\ pc = "tool" =>
          \A k \in 1..Len(tool_results) :
             tool_results[k].tool_use_id
                 \in ToolUseIds(messages[Len(messages)].content)

\* C4 witness: a user message of the history carries two tool results.
C4_Witness ==
    /\ IsPromptRun
    /\ \E i \in 2..Len(messages) :
          messages[i].role = "user" /\ Len(messages[i].content) = 2

\* C5: a call_tool that raised in iteration n left a tool_result with
\* is_error = TRUE under the block's id, first among the collected results and
\* then in the user message of iteration n; its exception neither leaves the
\* loop nor shows in the run's result, and when n < 10 the run does not end
\* before Gateway call n + 1 is made on a history whose last message is that
\* user message.
C5_ToolFailureContinues ==
    \A k \in 1..Len(tool_log) :
       tool_log[k].raised =>
          LET t == tool_log[k]
              um == 2 * t.iteration + 1
              IsErr(r) == /\ r.tool_use_id = t.id
                          /\ HasAttr(r, "is_error")
                          /\ r.is_error
          IN  /\ result.kind = "raise" => ~ExecLog[Len(ExecLog)].ok
              /\ \A j \in 1..Len(result.value) : result.value[j] # ToolFailure[1]
              /\ IF pc = "tool" /\ iteration = t.iteration
                 THEN \E j \in 1..Len(tool_results) : IsErr(tool_results[j])
                 ELSE /\ Len(messages) >= um
                      /\ messages[um].role = "user"
                      /\ \E j \in 1..Len(messages[um].content) :
                            IsErr(messages[um].content[j])
                      /\ t.iteration < 10 =>
                            \/ /\ pc = "gateway"
                               /\ iteration = t.iteration
                               /\ Len(messages) = um
                            \/ /\ Len(ExecLog) > t.iteration
                               /\ ExecLog[t.iteration + 1].nmsgs = um
                               /\ ExecLog[t.iteration + 1].last = messages[um]

\* C5 witness: after a call_tool raised, the next Gateway call was made.
C5_Witness ==
    /\ IsPromptRun
    /\ \E k \in 1..Len(tool_log) :
          /\ tool_log[k].raised
          /\ Len(ExecLog) > tool_log[k].iteration
          /\ ExecLog[tool_log[k].iteration + 1].ok

RECURSIVE ConcatTexts(_, _)
ConcatTexts(content, i) ==
    IF i > Len(content) THEN <<>>
    ELSE (IF content[i].type = "text" THEN content[i].text ELSE <<>>)
         \o ConcatTexts(content, i + 1)

\* C6: when the execution stage of process_prompt has returned, its output is
\* the concatenation of the text blocks of the last response, and a non-empty
\* fallback string when that response has no text block.
C6_FinalTextOrFallback ==
    (/\ IsPromptRun
     /\ pc = "done"
     /\ ExecLog # <<>>
     /\ ExecLog[Len(ExecLog)].ok
     /\ ~log_failed)
    => LET last == ExecLog[Len(ExecLog)].reply
       IN  /\ result.kind = "return"
           /\ IF \E i \in 1..Len(last) : last[i].type = "text"
              THEN result.value = ConcatTexts(last, 1)
              ELSE result.value # <<>>

\* C7: when the first response holds exactly one tool_use block (n, a) and the
\* second is a single text block t, and the log is written, the run has ended
\* with call_tool invoked once, with n and a, two Gateway calls, and t
\* returned.
C7_OneToolThenText ==
    (/\ Len(ExecLog) >= 2
     /\ ExecLog[1].ok
     /\ Cardinality(ToolUseIds(ExecLog[1].reply)) = 1
     /\ ExecLog[2].ok
     /\ Len(ExecLog[2].reply) = 1
     /\ ExecLog[2].reply[1].type = "text"
     /\ ~log_failed)
    => LET r == ExecLog[1].reply
           u == r[CHOOSE j \in 1..Len(r) : r[j].type = "tool_use"]
       IN  /\ pc = "done"
           /\ Len(ExecLog) = 2
           /\ Len(tool_log) = 1
           /\ tool_log[1].name = u.name
           /\ tool_log[1].args = u.input
           /\ result = [kind |-> "return", value |-> ExecLog[2].reply[1].text]

\* C7 witness: such a run of process_prompt, with a tool other than the
\* default one.
C7_Witness ==
    /\ IsPromptRun
    /\ pc = "done"
    /\ Len(ExecLog) = 2
    /\ Len(tool_log) = 1
    /\ tool_log[1].name # DefaultName
    /\ ~tool_log[1].raised
    /\ ExecLog[2].ok
    /\ Len(ExecLog[2].reply) = 1
    /\ ExecLog[2].reply[1].type = "text"
    /\ result.kind = "return"
    /\ ~log_failed

\* C8: in process_prompt a Gateway call of the execution stage that raised is
\* the last thing the stage did (no later Gateway call, no call_tool in or
\* after that iteration), the run has ended, and the string returned carries
\* the execution tag; and a run that ended with an execution-tagged error
\* ended on a failed Gateway call or log write, never on a failed call_tool.
C8_GatewayFailureAborts ==
    IsPromptRun =>
       /\ \A i \in 1..Len(ExecLog) :
             ~ExecLog[i].ok =>
                /\ i = Len(ExecLog)
                /\ iteration = i
                /\ pc = "done"
                /\ \A k \in 1..Len(tool_log) : tool_log[k].iteration < i
                /\ result = [kind |-> "return",
                             value |-> ReportedError(<<"Error in execution phase: ">>
                                                     \o GatewayFailure)]
       /\ (/\ pc = "done"
           /\ Len(result.value) >= 2
           /\ result.value[2] = "Error in execution phase: ")
          => log_failed \/ (ExecLog # <<>> /\ ~ExecLog[Len(ExecLog)].ok)

\* C8 witness: the Gateway raised in an iteration after a tool call was
\* dispatched earlier.
C8_Witness ==
    /\ IsPromptRun
    /\ pc = "done"
    /\ Len(ExecLog) >= 2
    /\ ~ExecLog[Len(ExecLog)].ok
    /\ tool_log # <<>>

\* C9: in process_prompt a planning Gateway call that raised ends the run:
\* the string returned carries the planning tag (not the execution tag), and
\* no execution Gateway call and no call_tool was made.
C9_PlanningFailure ==
    (/\ IsPromptRun
     /\ gateway_log # <<>>
     /\ gateway_log[1].phase = "planning"
     /\ ~gateway_log[1].ok)
    => /\ pc = "done"
       /\ Len(gateway_log) = 1
       /\ tool_log = <<>>
       /\ messages = <<>>
       /\ iteration = 0
       /\ result = [kind |-> "return",
                    value |-> ReportedError(<<"Error in planning phase: ">>
                                            \o GatewayFailure)]
       /\ result.value[2] # "Error in execution phase: "

\* C9 witness: the planning Gateway call raised.
C9_Witness ==
    /\ IsPromptRun
    /\ pc = "done"
    /\ Len(gateway_log) = 1
    /\ gateway_log[1].phase = "planning"
    /\ ~gateway_log[1].ok
    /\ Len(session_log) = 2

\* C10: when read_resource raised, process_prompt goes on with an empty
\* context: it does not end before list_tools is called, the planning call is
\* made (on a prompt with the empty context) once the catalog is there, the
\* execution stage is entered once the plan is there, and the string returned
\* never reports the schema failure.
C10_SchemaFailureNotFatal ==
    (/\ IsPromptRun
     /\ session_log # <<>>
     /\ session_log[1].op = "read_resource"
     /\ session_log[1].raised)
    => /\ context = <<>>
       /\ pc # "schema"
       /\ result # [kind |-> "return", value |-> ReportedError(SchemaFailure)]
       /\ pc \notin {"tools"} =>
             /\ Len(session_log) = 2
             /\ session_log[2].op = "list_tools"
       /\ (pc \notin {"tools", "plan"} /\ ~session_log[2].raised) =>
             /\ gateway_log # <<>>
             /\ gateway_log[1].phase = "planning"
             /\ gateway_log[1].last.content = planning_prompt(prompt, <<>>)
       /\ (/\ pc = "done"
           /\ ~session_log[2].raised
           /\ gateway_log[1].ok
           /\ ~(log_failed /\ Len(gateway_log) = 1))
          => ExecLog # <<>>

\* C10 witness: read_resource raised and the run went through both stages.
C10_Witness ==
    /\ IsPromptRun
    /\ session_log # <<>>
    /\ session_log[1].raised
    /\ pc = "done"
    /\ Len(ExecLog) >= 2
    /\ tool_log # <<>>
    /\ result.kind = "return"
    /\ ExecLog[Len(ExecLog)].ok

\* C11: in process_prompt a list_tools that raised ends the run: no Gateway
\* call of either phase and no call_tool is made, and the string returned
\* reports the failure.
C11_CatalogFailureFatal ==
    (/\ IsPromptRun
     /\ \E i \in 1..Len(session_log) :
           session_log[i].op = "list_tools" /\ session_log[i].raised)
    => /\ pc = "done"
       /\ gateway_log = <<>>
       /\ tool_log = <<>>
       /\ messages = <<>>
       /\ result = [kind |-> "return", value |-> ReportedError(CatalogFailure)]

\* C11 witness: list_tools raised after the schema was read.
C11_Witness ==
    /\ IsPromptRun
    /\ Len(session_log) = 2
    /\ ~session_log[1].raised
    /\ session_log[2].op = "list_tools"
    /\ session_log[2].raised
    /\ context = SchemaText
    /\ result.kind = "return"

\* C12: in process_prompt the first Gateway call, and only the first, is the
\* planning call, and it carries no tool catalog; every later Gateway call
\* carries the catalog, and such a call or a call_tool is made only after the
\* planning call has returned and its text has become the plan.
C12_PlanningBeforeExecution ==
    IsPromptRun =>
       /\ \A i \in 1..Len(gateway_log) :
             /\ (gateway_log[i].phase = "planning") = (i = 1)
             /\ IF i = 1 THEN gateway_log[i].tools = <<>>
                ELSE /\ gateway_log[i].tools = Catalog
                     /\ gateway_log[1].ok
                     /\ planning_text = ConcatTexts(gateway_log[1].reply, 1)
       /\ tool_log # <<>> => (Len(gateway_log) >= 2 /\ gateway_log[1].ok)
       /\ pc \in {"gateway", "tool"} => (gateway_log # <<>> /\ gateway_log[1].ok)

\* C12 witness: a run that planned, then called the Gateway with the catalog
\* and dispatched a tool.
C12_Witness ==
    /\ IsPromptRun
    /\ pc = "done"
    /\ Len(gateway_log) >= 3
    /\ gateway_log[1].phase = "planning"
    /\ gateway_log[2].tools = Catalog
    /\ tool_log # <<>>

\* C13: whatever sections the text of the planning response holds, and the
\* Gateway and the log write permitting, planning_phase returns that text
\* unchanged, the run does not end there, and the execution stage is entered
\* on a seed message that embeds it; a planning error is only ever reported
\* after a Gateway or log failure.
C13_PlanVerbatim ==
    IsPromptRun =>
       /\ (/\ gateway_log # <<>>
           /\ gateway_log[1].ok
           /\ ~(log_failed /\ Len(gateway_log) = 1))
          => LET plan == ConcatTexts(gateway_log[1].reply, 1)
             IN  /\ planning_text = plan
                 /\ messages # <<>>
                 /\ messages[1] = [role |-> "user",
                                   content |-> execution_prompt(prompt, plan)]
                 /\ pc # "plan"
                 /\ pc = "done" =>
                       /\ ExecLog # <<>>
                       /\ ExecLog[1].nmsgs = 1
                       /\ ExecLog[1].last = messages[1]
       /\ (/\ Len(result.value) >= 2
           /\ result.value[2] = "Error in planning phase: ")
          => (log_failed \/ ~gateway_log[1].ok)

\* C13 witness: a plan with some but not all of the sections went through the
\* execution stage.
C13_Witness ==
    /\ IsPromptRun
    /\ pc = "done"
    /\ planning_text # <<>>
    /\ Len(planning_text) < Len(Sections)
    /\ Len(ExecLog) >= 2
    /\ result.kind = "return"
    /\ ExecLog[Len(ExecLog)].ok

\* C14: whatever the Gateway answers and whatever the tool calls do, as long
\* as every call returns or raises, the loop ends (by returning or raising),
\* and it never makes more than 10 Gateway calls.
C14_Terminates ==
    /\ [](Len(ExecLog) <= 10 /\ iteration <= 10)
    /\ <>(pc = "done")

\* C14 witness: a run that ended after 10 Gateway calls, one of its tool
\* calls having raised.
C14_Witness ==
    /\ pc = "done"
    /\ Len(ExecLog) = 10
    /\ \E k \in 1..Len(tool_log) : tool_log[k].raised

IdSeq(content) ==
    LET uses == SelectSeq(content, LAMBDA b : b.type = "tool_use")
    IN  [j \in 1..Len(uses) |-> uses[j].id]

ResultIds(results) == [j \in 1..Len(results) |-> results[j].tool_use_id]

\* the ids call_tool was invoked for in iteration i, in the order of the calls
DispatchedIds(i) ==
    LET calls == SelectSeq(tool_log, LAMBDA t : t.iteration = i)
    IN  [j \in 1..Len(calls) |-> calls[j].id]

IsPrefix(a, b) == Len(a) <= Len(b) /\ a = SubSeq(b, 1, Len(a))

\* C15: call_tool is invoked for the tool_use blocks of a response in block
\* order; while they are dispatched the collected results follow that order,
\* and afterwards the assistant message is followed by exactly one user
\* message holding one tool_result per tool_use block, in block order, with
\* is_error set exactly on those whose call raised.
C15_ResultsInOrder ==
    /\ \A i \in 1..Len(ExecLog) :
          ExecLog[i].ok =>
             /\ IsPrefix(DispatchedIds(i), IdSeq(ExecLog[i].reply))
             /\ (i < iteration \/ pc # "tool") =>
                   DispatchedIds(i) = IdSeq(ExecLog[i].reply)
    /\ \A i \in 1..Len(messages) :
          (messages[i].role = "assistant" /\ IdSeq(messages[i].content) # <<>>) =>
             IF i = Len(messages)
             THEN /\ pc = "tool"
                  /\ Len(tool_results) < Len(IdSeq(messages[i].content))
                  /\ IsPrefix(ResultIds(tool_results), IdSeq(messages[i].content))
                  /\ response[scan].id =
                        IdSeq(messages[i].content)[Len(tool_results) + 1]
             ELSE /\ messages[i + 1].role = "user"
                  /\ ResultIds(messages[i + 1].content) = IdSeq(messages[i].content)
                  /\ \A j \in 1..Len(messages[i + 1].content) :
                        LET r == messages[i + 1].content[j]
                        IN  /\ r.type = "tool_result"
                            /\ \E k \in 1..Len(tool_log) :
                                  /\ tool_log[k].id = r.tool_use_id
                                  /\ tool_log[k].raised = HasAttr(r, "is_error")
                  /\ i + 2 <= Len(messages) => messages[i + 2].role = "assistant"

\* C15 witness: a response with two tool_use blocks was answered by one user
\* message with two results, and the next Gateway call was made.
C15_Witness ==
    /\ IsPromptRun
    /\ \E i \in 1..Len(messages) :
          /\ messages[i].role = "assistant"
          /\ Len(IdSeq(messages[i].content)) = 2
          /\ i + 2 <= Len(messages)
          /\ Len(messages[i + 1].content) = 2

\* C16: a response without tool_use block is the last thing the loop sees:
\* the run has ended, the history ends with the assistant message holding
\* that response, and no call_tool was made in that iteration.
C16_NoToolUseEndsLoop ==
    \A i \in 1..Len(ExecLog) :
       (ExecLog[i].ok /\ NoToolUse(ExecLog[i].reply)) =>
          /\ i = Len(ExecLog)
          /\ pc = "done"
          /\ Len(messages) = 2 * i
          /\ messages[2 * i] = [role |-> "assistant", content |-> ExecLog[i].reply]
          /\ \A k \in 1..Len(tool_log) : tool_log[k].iteration < i

\* C16 witness: the loop ended on a text-only response after some tool calls.
C16_Witness ==
    /\ IsPromptRun
    /\ pc = "done"
    /\ Len(ExecLog) >= 3
    /\ ExecLog[Len(ExecLog)].ok
    /\ NoToolUse(ExecLog[Len(ExecLog)].reply)
    /\ messages[Len(messages)].role = "assistant"
    /\ tool_log # <<>>

\* C17: the roles of the history alternate, user first, and every Gateway
\* call is made on a history that ends with a user message.
C17_RolesAlternate ==
    /\ \A i \in 1..Len(messages) :
          messages[i].role = (IF i % 2 = 1 THEN "user" ELSE "assistant")
    /\ \A i \in 1..Len(gateway_log) : gateway_log[i].last.role = "user"
    /\ pc = "gateway" => messages[Len(messages)].role = "user"

\* C17 witness: a history of seed, ten responses and ten result messages.
C17_Witness ==
    /\ IsPromptRun
    /\ pc = "done"
    /\ Len(messages) = 2 * max_iterations + 1
    /\ Len(gateway_log) = max_iterations + 1

\* C18: a step of the loop leaves the history as it is or extends it at the
\* end, and the assistant message of every response holds all the blocks of
\* that response.
C18_AppendOnly ==
    /\ [][IsPrefix(messages, messages')]_vars
    /\ [](\A i \in 1..Len(ExecLog) :
             ExecLog[i].ok =>
                /\ Len(messages) >= 2 * i
                /\ messages[2 * i] = [role |-> "assistant",
                                      content |-> ExecLog[i].reply])

\* C18 witness: a recorded response holds a text block and a tool_use block,
\* and the history has grown past it.
C18_Witness ==
    /\ IsPromptRun
    /\ Len(messages) >= 5
    /\ \E i \in 1..Len(messages) :
          /\ messages[i].role = "assistant"
          /\ Len(messages[i].content) = 2
          /\ Len(IdSeq(messages[i].content)) = 1
          /\ i < Len(messages)

\* C20: when the 10th response holds tool_use blocks, call_tool is still
\* invoked for each of them, their results are appended as a user message
\* that no Gateway call ever receives, and the run ends there: the history
\* ends with that user message and the final text comes from the assistant
\* message before it.
C20_LastResultsUnused ==
    (/\ Len(ExecLog) = 10
     /\ ExecLog[10].ok
     /\ ~NoToolUse(ExecLog[10].reply)
     /\ pc # "tool")
    => /\ pc = "done"
       /\ DispatchedIds(10) = IdSeq(ExecLog[10].reply)
       /\ Len(messages) = 21
       /\ messages[20] = [role |-> "assistant", content |-> ExecLog[10].reply]
       /\ messages[21].role = "user"
       /\ ResultIds(messages[21].content) = IdSeq(ExecLog[10].reply)
       /\ \A i \in 1..Len(gateway_log) : gateway_log[i].nmsgs < 21
       /\ result.kind = "return"
       /\ IsPromptRun =>
             (log_failed \/ result.value = ConcatTexts(messages[20].content, 1))

\* C20 witness: process_prompt was stopped by the bound on a 10th response
\* holding a text block and a tool_use block.
C20_Witness ==
    /\ IsPromptRun
    /\ pc = "done"
    /\ Len(messages) = 21
    /\ messages[21].role = "user"
    /\ Len(messages[20].content) = 2
    /\ result.kind = "return"
    /\ result.value # <<>>
    /\ ~log_failed

\* what C19 asks of one run: its Gateway calls carry its own prompt, schema
\* and history; its history is its own seed, its own responses and the
\* results of its own tool calls; its result is taken from its own last
\* response
OwnHistory(f) ==
    LET exec == SelectSeq(f.gateway_log, LAMBDA g : g.phase = "execution")
        own_ids == UNION {ToolUseIds(exec[i].reply) : i \in 1..Len(exec)}
    IN  /\ f.gateway_log # <<>> =>
              f.gateway_log[1].last =
                  create_message(planning_prompt(f.prompt, f.context), "user")
        /\ f.messages # <<>> =>
              /\ f.gateway_log # <<>>
              /\ f.planning_text = ConcatTexts(f.gateway_log[1].reply, 1)
              /\ f.messages[1] =
                    create_message(execution_prompt(f.prompt, f.planning_text), "user")
        /\ Len(f.messages) <= 2 * Len(exec) + 1
        /\ \A i \in 2..Len(f.messages) :
              IF i % 2 = 0
              THEN f.messages[i] =
                       [role |-> "assistant", content |-> exec[i \div 2].reply]
              ELSE /\ f.messages[i].role = "user"
                   /\ ResultIds(f.messages[i].content) =
                          IdSeq(exec[(i - 1) \div 2].reply)
        /\ \A i \in 1..Len(exec) :
              /\ exec[i].nmsgs = 2 * i - 1
              /\ Len(f.messages) >= 2 * i - 1
              /\ exec[i].last = f.messages[2 * i - 1]
        /\ \A k \in 1..Len(f.tool_log) : f.tool_log[k].id \in own_ids
        /\ (/\ f.pc = "done"
            /\ ~f.log_failed
            /\ exec # <<>>
            /\ exec[Len(exec)].ok)
           => f.result = [kind |-> "return",
                          value |-> ConcatTexts(exec[Len(exec)].reply, 1)]

FrameToolIds(f) == {f.tool_log[k].id : k \in 1..Len(f.tool_log)}

\* C19: of two process_prompt runs interleaved at their awaits on one session,
\* each has a history made of its own seed, its own responses and the results
\* of its own tool calls, hands the Gateway its own history, and returns the
\* text of its own last response; no tool call belongs to both.
C19_NoSharedState ==
    parked # <<>> =>
       /\ OwnHistory(Frame)
       /\ OwnHistory(parked[1])
       /\ FrameToolIds(Frame) \cap FrameToolIds(parked[1]) = {}

\* C19 witness: both runs have returned, and their tool calls were
\* interleaved: one run made a call between two calls of the other.
C19_Witness ==
    /\ parked # <<>>
    /\ pc = "done"
    /\ parked[1].pc = "done"
    /\ result.kind = "return"
    /\ parked[1].result.kind = "return"
    /\ \E a, c \in FrameToolIds(Frame) :
          \E b \in FrameToolIds(parked[1]) : a < b /\ b < c

====
